---- MODULE Spec2Model ----
(***************************************************************************)
(* State-machine model of the cidacake on-chain program (src/src/lib.rs).  *)
(*                                                                         *)
(* The program is stateless; its state is the data of the accounts it is   *)
(* handed: one CakeState account (the shop), Product accounts at the       *)
(* program addresses derived from ("product", id) and PurchaseHistory      *)
(* accounts at derived "history" addresses.  One action models one call of *)
(* process_instruction for one opcode, from its first account lookup to    *)
(* its return, and leaves the accounts as the handler had written them at  *)
(* that point.  The host runs an instruction atomically: its step Finish   *)
(* follows every return and discards the writes of an instruction that     *)
(* returned an error or aborted.                                           *)
(*                                                                         *)
(* An input is drawn where the handler first reads it, so an instruction   *)
(* that returns early carries defaults for what was never read.  A         *)
(* transaction carries one instruction: the host reclaims the accounts an  *)
(* instruction left without lamports before it takes the next one.         *)
(*                                                                         *)
(* u64 values are scaled to WordBits bits and u8 values to ByteBits bits.  *)
(*                                                                         *)
(* Spec is the program under its instructions, with the records held as    *)
(* decoded values.  CodecSpec is the record codec (impl Pack) taken alone, *)
(* over buffers of one-bit cells.  LateSpec is Spec begun where the shop   *)
(* has used up the product ids that fit in a u8.  The model holds the      *)
(* Product accounts of MaxProducts consecutive ids from first_id on.       *)
(***************************************************************************)
EXTENDS Integers, Sequences, FiniteSets, TLC

\* ------------------------------------------------------------- bounds
WordBits == 2
MaxProducts == 1
MaxHistory == 2
\* the widths, in cells, a Pubkey, a name and a description are scaled to
KeyLen == 1
NameLen == 1
DescriptionLen == 1

U64Mod == 2 ^ WordBits
U64Max == U64Mod - 1
ByteBits == WordBits - 1
U8Mod == 2 ^ ByteBits

\* ------------------------------------------------------------- values
Keys == {"A", "B"}
\* the identities that buy in this model
Buyers == {"B"}
\* Pubkey::default(), the all-zero key read back from zeroed account data
ZeroKey == "Z"
\* the key of the CakeState account itself, which a caller may also present in
\* the owner position (the runtime then hands the program one account twice)
CakeKey == "C"
Idents == Keys \cup {ZeroKey, CakeKey}
NoKey == "-"

Names == {1}
Descriptions == {2}
Prices == {1, U64Max}
Stocks == {0, 2}
Amounts == {1, 2}
Timestamps == {1}

\* rent.minimum_balance(LEN), the lamports an account is created with
RentLamports == 1

\* ProgramError values, the errors of the system program, and the abort
Ok == "Ok"
NotEnoughAccountKeys == "NotEnoughAccountKeys"
IncorrectProgramId == "IncorrectProgramId"
InvalidAccountData == "InvalidAccountData"
InsufficientFunds == "InsufficientFunds"
InvalidInstructionData == "InvalidInstructionData"
InvalidArgument == "InvalidArgument"
Panic == "Panic"
TransferError == "TransferError"
CreateAccountError == "CreateAccountError"

VARIABLES
    cake_account,       \* the CakeState account: allocation, lamports, data
    product_accounts,   \* product id -> the Product account at its address
    history_accounts,   \* history address -> the PurchaseHistory account
    saved,              \* the accounts as they were when the instruction began
    overflow_checks,    \* whether the build traps integer overflow
    pc,                 \* "idle", or "returned" from an instruction
    call,               \* the instruction: opcode, accounts and payload
    result,             \* what the instruction returned
    transferred,        \* the lamports the instruction moved
    sales,              \* history address -> the sells that succeeded on it
    codec,              \* a record and a buffer on their way through Pack
    first_id,           \* the least product id whose account the model holds
    closed              \* the product ids close_product_account has erased

accounts == <<cake_account, product_accounts, history_accounts>>
program == <<cake_account, product_accounts, history_accounts, saved,
             overflow_checks, pc, call, result, transferred, sales,
             first_id, closed>>
vars == <<cake_account, product_accounts, history_accounts, saved,
          overflow_checks, pc, call, result, transferred, sales, codec,
          first_id, closed>>

\* ------------------------------------------------------------- addresses
\* Pubkey::find_program_address: a collision-free function of the seeds
ProductAddress(product_id) == <<"product", product_id>>
HistoryAddress(buyer, product_id, history_index) ==
    <<"history", buyer, product_id, history_index>>
\* the seeds migrate_history signs with: "history", buyer, one index byte
MigrateAddress(buyer, index) == <<"history", buyer, index, -1>>

\* the product ids whose accounts the model holds: a window of MaxProducts
\* ids from first_id on, every id below it being closed and reclaimed
ProductIds == first_id .. first_id + MaxProducts - 1
\* product ids a caller can name: the ids in use and one never created
ProductIdInputs == first_id .. first_id + MaxProducts
ProductKeys == {ProductAddress(i) : i \in ProductIdInputs}
SellHistoryKeys ==
    {HistoryAddress(b, p, h) : b \in Buyers, p \in ProductIds, h \in 0 .. MaxHistory}
MigrateHistoryKeys == {MigrateAddress(b, 0) : b \in Buyers}
HistoryKeys == SellHistoryKeys \cup MigrateHistoryKeys

\* ------------------------------------------------------------- records
\* CakeState, with the account's allocation and lamports
ZeroCake == [alloc |-> TRUE, lamports |-> 0, owner |-> ZeroKey,
             product_counter |-> 0, history_counter |-> 0]
NoCake == [ZeroCake EXCEPT !.alloc = FALSE]

\* Product, with the account's allocation and lamports
ZeroProduct == [alloc |-> TRUE, lamports |-> 0, id |-> 0, name |-> 0,
                description |-> 0, price |-> 0, stock |-> 0]
NoProduct == [ZeroProduct EXCEPT !.alloc = FALSE]

\* PurchaseHistory, with the account's allocation
ZeroHistory == [alloc |-> TRUE, product_id |-> 0, quantity |-> 0,
                total_price |-> 0, buyer |-> ZeroKey, timestamp |-> 0]
NoHistory == [ZeroHistory EXCEPT !.alloc = FALSE]

NoTransfer == [from |-> NoKey, to |-> NoKey, lamports |-> 0]

\* an instruction: the opcode, whether the account list is complete, the
\* accounts presented (the owner with its is_signer flag, the payer, the buyer,
\* the product and history accounts) and the payload (its length in bytes and
\* the fields read from it)
NoCall == [op |-> "none", enough |-> FALSE, owner |-> NoKey, signer |-> FALSE,
           payer |-> NoKey, buyer |-> NoKey, product_key |-> <<>>,
           history_key |-> <<>>, len |-> 0, product_id |-> 0, amount |-> 0,
           price |-> 0, name |-> 0, description |-> 0, index |-> 0,
           buyer_pubkey |-> NoKey, timestamp |-> 0]

\* the Product account a caller-supplied key names (empty when never created)
ProductAt(key) ==
    IF key[2] \in ProductIds THEN product_accounts[key[2]] ELSE NoProduct

Snapshot(cake, products, history) ==
    [cake |-> cake, products |-> products, history |-> history]

\* no record in the codec
NoCodec == [kind |-> "none", origin |-> "none", step |-> "none",
            record0 |-> <<>>, buffer0 |-> <<>>, record |-> <<>>,
            buffer |-> <<>>, error |-> Ok]

Init ==
    /\ first_id = 0
    /\ closed = {}
    /\ cake_account = [ZeroCake EXCEPT !.lamports = RentLamports]
    /\ product_accounts = [i \in ProductIds |-> NoProduct]
    /\ history_accounts = [k \in HistoryKeys |-> NoHistory]
    /\ saved = Snapshot(cake_account, product_accounts, history_accounts)
    /\ overflow_checks \in BOOLEAN
    /\ codec = NoCodec
    /\ pc = "idle"
    /\ call = NoCall
    /\ result = Ok
    /\ transferred = NoTransfer
    /\ sales = [k \in SellHistoryKeys |-> 0]

\* ------------------------------------------------------------- returns
\* The host takes the next instruction once the last one has ended and the
\* accounts it left without lamports are reclaimed: a transaction carries one
\* instruction.
Ready ==
    /\ pc = "idle"
    /\ ~(cake_account.alloc /\ cake_account.lamports = 0)
    /\ \A i \in ProductIds :
          ~(product_accounts[i].alloc /\ product_accounts[i].lamports = 0)

\* The handler returns err, having written cake, products and history and
\* moved the lamports t.
Returns(c, err, cake, products, history, t) ==
    /\ pc' = "returned"
    /\ call' = c
    /\ result' = err
    /\ cake_account' = cake
    /\ product_accounts' = products
    /\ history_accounts' = history
    /\ transferred' = t
    /\ UNCHANGED <<saved, overflow_checks, sales, codec, first_id, closed>>

\* The handler returns err before it has written anything.
Fails(c, err) ==
    Returns(c, err, cake_account, product_accounts, history_accounts, NoTransfer)

\* the instruction as dispatched on its opcode byte, nothing else read yet
Invoke(op) == [NoCall EXCEPT !.op = op, !.len = 1]
\* the account list is complete; the owner account's is_signer flag, which no
\* handler reads, is drawn once the owner check has passed
Presents(c, owner, signer) ==
    [c EXCEPT !.enough = TRUE, !.owner = owner, !.signer = signer]

\* cake_account.owner != program_id
CakeIsProgramOwned == cake_account.alloc

\* the owner check left out
IsOwnerUnchecked(owner) == TRUE

\* cake_state.owner != *owner.key
IsOwner(owner) == cake_account.owner = owner

\* ------------------------------------------------------------- arithmetic
Overflows(x) == x > U64Max
Wrap(x) == x % U64Mod
\* product_id as u8
AsU8(x) == x % U8Mod

\* an account created over one that is in use
CreateAccountOverUsed(in_use, payer_ok) == payer_ok

\* system_instruction::create_account: the target must be unused, the payer
\* must sign and hold the lamports
CreateAccountOk(in_use, payer_ok) == ~in_use /\ payer_ok

\* ------------------------------------------------------------- opcode 0
InitializedCake(owner) ==
    [cake_account EXCEPT !.owner = owner, !.product_counter = 0,
                         !.history_counter = 0]

Initialize ==
    /\ Ready
    /\ \/ Fails(Invoke("initialize"), NotEnoughAccountKeys)
       \/ \E owner \in Idents :
            LET c0 == Presents(Invoke("initialize"), owner, FALSE) IN
            IF ~CakeIsProgramOwned THEN Fails(c0, IncorrectProgramId)
            ELSE \E signer \in BOOLEAN :
              Returns([c0 EXCEPT !.signer = signer], Ok, InitializedCake(owner), product_accounts,
                         history_accounts, NoTransfer)

\* ------------------------------------------------------------- opcode 1
\* the price and the stock stored in each other's field
NewProductSwapped(product_id, name, description, price, initial_stock) ==
    [alloc |-> TRUE, lamports |-> RentLamports, id |-> product_id,
     name |-> name, description |-> description, price |-> initial_stock,
     stock |-> price]

\* the Product packed into the new account
NewProduct(product_id, name, description, price, initial_stock) ==
    [alloc |-> TRUE, lamports |-> RentLamports, id |-> product_id,
     name |-> name, description |-> description, price |-> price,
     stock |-> initial_stock]

AddProduct ==
    /\ Ready
    /\ cake_account.product_counter \in ProductIds
    /\ \/ Fails(Invoke("add_product"), NotEnoughAccountKeys)
       \/ \E owner \in Idents :
            LET c0 == Presents(Invoke("add_product"), owner, FALSE)
                product_id == cake_account.product_counter
            IN
            IF ~CakeIsProgramOwned THEN Fails(c0, IncorrectProgramId)
            ELSE IF ~IsOwner(owner) THEN Fails(c0, InvalidAccountData)
            ELSE \E signer \in BOOLEAN :
              LET c1 == [c0 EXCEPT !.signer = signer] IN
              \E product_key \in ProductKeys :
              LET c2 == [c1 EXCEPT !.product_key = product_key] IN
              IF product_key # ProductAddress(product_id)
              THEN Fails(c2, InvalidAccountData)
              ELSE \E payer_ok \in BOOLEAN :
                LET created == [product_accounts EXCEPT ![product_id] =
                                  [ZeroProduct EXCEPT !.lamports = RentLamports]]
                IN
                IF ~CreateAccountOk(ProductAt(product_key).alloc, payer_ok)
                THEN Fails(c2, CreateAccountError)
                ELSE
                  \/ Returns([c2 EXCEPT !.len = 1], Panic, cake_account,
                             created, history_accounts, NoTransfer)
                  \/ \E name \in Names, description \in Descriptions,
                        price \in Prices, initial_stock \in Stocks :
                       Returns([c2 EXCEPT !.len = 177, !.name = name,
                                   !.description = description,
                                   !.price = price, !.amount = initial_stock],
                               Ok,
                               [cake_account EXCEPT
                                   !.product_counter = product_id + 1],
                               [product_accounts EXCEPT ![product_id] =
                                   NewProduct(product_id, name, description,
                                              price, initial_stock)],
                               history_accounts, NoTransfer)

\* ------------------------------------------------------------- opcode 2
\* product.stock += amount; Product::pack
Restocked(product_id, stock) ==
    [product_accounts EXCEPT ![product_id].stock = stock]

AddStock ==
    /\ Ready
    /\ \/ Fails(Invoke("add_stock"), NotEnoughAccountKeys)
       \/ \E owner \in Idents :
            LET c0 == Presents(Invoke("add_stock"), owner, FALSE) IN
            IF ~CakeIsProgramOwned THEN Fails(c0, IncorrectProgramId)
            ELSE IF ~IsOwner(owner) THEN Fails(c0, InvalidAccountData)
            ELSE \E signer \in BOOLEAN :
              LET c1 == [c0 EXCEPT !.signer = signer] IN
              \/ Fails(c1, Panic)
              \/ \E product_id \in ProductIdInputs, product_key \in ProductKeys :
                   LET c2 == [c1 EXCEPT !.len = 9, !.product_id = product_id,
                                        !.product_key = product_key]
                       product == ProductAt(product_key)
                   IN
                   IF product_key # ProductAddress(product_id)
                   THEN Fails(c2, InvalidAccountData)
                   ELSE IF ~product.alloc THEN Fails(c2, InvalidAccountData)
                   ELSE
                     \/ Fails(c2, Panic)
                     \/ \E amount \in Amounts :
                          LET c3 == [c2 EXCEPT !.len = 17, !.amount = amount]
                              stock == product.stock + amount
                          IN
                          IF Overflows(stock) /\ overflow_checks
                          THEN Fails(c3, Panic)
                          ELSE Returns(c3, Ok, cake_account,
                                       Restocked(product_id, Wrap(stock)),
                                       history_accounts, NoTransfer)

\* ------------------------------------------------------------- opcode 3
\* the new price written and the stock cleared
RepricedAndCleared(product_id, new_price) ==
    [product_accounts EXCEPT ![product_id].price = new_price,
                             ![product_id].stock = 0]

\* product.price = new_price; Product::pack
Repriced(product_id, new_price) ==
    [product_accounts EXCEPT ![product_id].price = new_price]

UpdatePrice ==
    /\ Ready
    /\ \/ Fails(Invoke("update_price"), NotEnoughAccountKeys)
       \/ \E owner \in Idents :
            LET c0 == Presents(Invoke("update_price"), owner, FALSE) IN
            IF ~CakeIsProgramOwned THEN Fails(c0, IncorrectProgramId)
            ELSE IF ~IsOwner(owner) THEN Fails(c0, InvalidAccountData)
            ELSE \E signer \in BOOLEAN :
              LET c1 == [c0 EXCEPT !.signer = signer] IN
              \/ Fails(c1, Panic)
              \/ \E product_id \in ProductIdInputs, product_key \in ProductKeys :
                   LET c2 == [c1 EXCEPT !.len = 9, !.product_id = product_id,
                                        !.product_key = product_key]
                       product == ProductAt(product_key)
                   IN
                   IF product_key # ProductAddress(product_id)
                   THEN Fails(c2, InvalidAccountData)
                   ELSE IF ~product.alloc THEN Fails(c2, InvalidAccountData)
                   ELSE
                     \/ Fails(c2, Panic)
                     \/ \E new_price \in Prices :
                          Returns([c2 EXCEPT !.len = 17, !.price = new_price],
                                  Ok, cake_account,
                                  Repriced(product_id, new_price),
                                  history_accounts, NoTransfer)

\* ------------------------------------------------------------- opcode 4
\* the stock check off by one
HasStockOffByOne(product, amount) == amount <= product.stock + 1

\* amount > product.stock
HasStock(product, amount) == amount <= product.stock

\* amount * product.price, as the build that does not trap computes it
TotalPrice(amount, price) == Wrap(amount * price)

\* product.stock -= amount; Product::pack
SoldProducts(product_id, amount) ==
    [product_accounts EXCEPT ![product_id].stock = @ - amount]

\* the stock written before the payment
ProductsAtTransferSold(product_id, amount) == SoldProducts(product_id, amount)

\* the Product accounts as written when the transfer is invoked
ProductsAtTransfer(product_id, amount) == product_accounts

\* the PurchaseHistory the sale packs into the history account
NewHistory(product_id, amount, total_price, buyer, timestamp) ==
    [alloc |-> TRUE, product_id |-> AsU8(product_id), quantity |-> amount,
     total_price |-> total_price, buyer |-> buyer, timestamp |-> timestamp]

\* the history counter left as it was
SoldCakeSameCounter == cake_account

\* cake_state.history_counter += 1
SoldCake == [cake_account EXCEPT !.history_counter = @ + 1]

\* the CakeState account after the transfer to the owner account: credited
\* when the owner position holds the CakeState account itself
Credited(cake, owner, total_price) ==
    IF owner = CakeKey THEN [cake EXCEPT !.lamports = @ + total_price]
    ELSE cake

Sell ==
    /\ Ready
    /\ cake_account.history_counter < MaxHistory
    /\ \/ Fails(Invoke("sell"), NotEnoughAccountKeys)
       \/ \E owner \in Idents :
            LET c0 == Presents(Invoke("sell"), owner, FALSE) IN
            IF ~CakeIsProgramOwned THEN Fails(c0, IncorrectProgramId)
            ELSE IF ~IsOwner(owner) THEN Fails(c0, InvalidAccountData)
            ELSE \E signer \in BOOLEAN :
              LET c1 == [c0 EXCEPT !.signer = signer] IN
              \/ Fails(c1, Panic)
              \/ \E product_id \in ProductIdInputs, product_key \in ProductKeys :
                   LET c2 == [c1 EXCEPT !.len = 9, !.product_id = product_id,
                                        !.product_key = product_key]
                       product == ProductAt(product_key)
                   IN
                   IF product_key # ProductAddress(product_id)
                   THEN Fails(c2, InvalidAccountData)
                   ELSE IF ~product.alloc THEN Fails(c2, InvalidAccountData)
                   ELSE
                     \/ Fails(c2, Panic)
                     \/ \E amount \in Amounts :
                          LET c3 == [c2 EXCEPT !.len = 17, !.amount = amount] IN
                          IF ~HasStock(product, amount)
                          THEN Fails(c3, InsufficientFunds)
                          ELSE IF Overflows(amount * product.price)
                                  /\ overflow_checks
                          THEN Fails(c3, Panic)
                          ELSE \E buyer \in Buyers, buyer_ok \in BOOLEAN :
                            LET c4 == [c3 EXCEPT !.buyer = buyer]
                                total_price == TotalPrice(amount, product.price)
                                paid == [from |-> buyer, to |-> owner,
                                         lamports |-> total_price]
                                sold == SoldProducts(product_id, amount)
                                credited == Credited(cake_account, owner,
                                                     total_price)
                                history_index == cake_account.history_counter
                            IN
                            IF ~buyer_ok
                            THEN Returns(c4, TransferError, cake_account,
                                         ProductsAtTransfer(product_id, amount),
                                         history_accounts, NoTransfer)
                            ELSE \E history_key \in
                                   {HistoryAddress(buyer, product_id, h) :
                                       h \in 0 .. MaxHistory} :
                              LET c5 == [c4 EXCEPT !.history_key = history_key] IN
                              IF history_key #
                                 HistoryAddress(buyer, product_id, history_index)
                              THEN Returns(c5, InvalidAccountData, credited,
                                           sold, history_accounts, paid)
                              ELSE \E payer_ok \in BOOLEAN :
                                IF ~CreateAccountOk(
                                      history_accounts[history_key].alloc,
                                      payer_ok)
                                THEN Returns(c5, CreateAccountError,
                                             credited, sold,
                                             history_accounts, paid)
                                ELSE
                                  \/ Returns(c5, InvalidArgument, credited,
                                             sold,
                                             [history_accounts EXCEPT
                                                ![history_key] = ZeroHistory],
                                             paid)
                                  \/ \E timestamp \in Timestamps :
                                       Returns(
                                         [c5 EXCEPT !.timestamp = timestamp],
                                         Ok,
                                         Credited(SoldCake, owner, total_price),
                                         sold,
                                         [history_accounts EXCEPT
                                            ![history_key] =
                                              NewHistory(product_id, amount,
                                                         total_price, buyer,
                                                         timestamp)],
                                         paid)

\* ------------------------------------------------------------- opcode 5
MigrateHistory ==
    /\ Ready
    /\ \/ Fails(Invoke("migrate_history"), NotEnoughAccountKeys)
       \/ \E payer \in Keys :
            LET c1 == [Invoke("migrate_history") EXCEPT !.enough = TRUE,
                                                        !.payer = payer]
            IN
            \/ Fails(c1, Panic)
            \/ \E buyer \in Buyers, index \in {0},
                  history_key \in HistoryKeys, payer_ok \in BOOLEAN :
                 LET c2 == [c1 EXCEPT !.len = 2, !.buyer = buyer,
                                      !.index = index,
                                      !.history_key = history_key]
                     created == [history_accounts EXCEPT
                                    ![history_key] = ZeroHistory]
                 IN
                 \* the new account signs through the seeds the program gives
                 IF history_key # MigrateAddress(buyer, index)
                    \/ ~CreateAccountOk(history_accounts[history_key].alloc,
                                        payer_ok)
                 THEN Fails(c2, CreateAccountError)
                 ELSE
                   \/ Returns(c2, Panic, cake_account, product_accounts,
                              created, NoTransfer)
                   \/ \E product_id \in 0 .. U8Mod - 1, quantity \in {1},
                         total_price \in {1}, buyer_pubkey \in Keys,
                         timestamp \in Timestamps :
                        Returns([c2 EXCEPT !.len = 59,
                                    !.product_id = product_id,
                                    !.amount = quantity,
                                    !.price = total_price,
                                    !.buyer_pubkey = buyer_pubkey,
                                    !.timestamp = timestamp],
                                Ok, cake_account, product_accounts,
                                [history_accounts EXCEPT ![history_key] =
                                   [alloc |-> TRUE, product_id |-> product_id,
                                    quantity |-> quantity,
                                    total_price |-> total_price,
                                    buyer |-> buyer_pubkey,
                                    timestamp |-> timestamp]],
                                NoTransfer)

\* ------------------------------------------------------------- opcode 6
\* lamports = cake_account.lamports(); cake_account's lamports = 0; owner's
\* lamports += lamports; every data byte = 0.  With the CakeState account
\* itself in the owner position both writes land on the one balance.
ClosedCake(owner) ==
    [ZeroCake EXCEPT !.lamports =
        IF owner = CakeKey THEN cake_account.lamports ELSE 0]

CloseAccount ==
    /\ Ready
    /\ \/ Fails(Invoke("close_account"), NotEnoughAccountKeys)
       \/ \E owner \in Idents :
            LET c0 == Presents(Invoke("close_account"), owner, FALSE) IN
            IF ~CakeIsProgramOwned THEN Fails(c0, IncorrectProgramId)
            ELSE IF ~IsOwner(owner) THEN Fails(c0, InvalidAccountData)
            ELSE \E signer \in BOOLEAN :
              Returns([c0 EXCEPT !.signer = signer], Ok, ClosedCake(owner),
                      product_accounts, history_accounts,
                      [from |-> CakeKey, to |-> owner,
                       lamports |-> cake_account.lamports])

\* ------------------------------------------------------------- opcode 7
CloseProductAccount ==
    /\ Ready
    /\ \/ Fails(Invoke("close_product_account"), NotEnoughAccountKeys)
       \/ \E owner \in Idents :
            LET c0 == Presents(Invoke("close_product_account"), owner, FALSE)
            IN
            IF ~CakeIsProgramOwned THEN Fails(c0, IncorrectProgramId)
            ELSE IF ~IsOwner(owner) THEN Fails(c0, InvalidAccountData)
            ELSE \E signer \in BOOLEAN :
              LET c1 == [c0 EXCEPT !.signer = signer] IN
              \/ Fails(c1, Panic)
              \/ \E product_id \in ProductIdInputs, product_key \in ProductKeys :
                   LET c2 == [c1 EXCEPT !.len = 9, !.product_id = product_id,
                                        !.product_key = product_key]
                       product == ProductAt(product_key)
                   IN
                   IF product_key # ProductAddress(product_id)
                   THEN Fails(c2, InvalidAccountData)
                   ELSE IF ~product.alloc THEN Fails(c2, IncorrectProgramId)
                   ELSE Returns(c2, Ok, cake_account,
                                [product_accounts EXCEPT
                                   ![product_id] = ZeroProduct],
                                history_accounts,
                                [from |-> product_key, to |-> owner,
                                 lamports |-> product.lamports])

\* ------------------------------------------------------------- dispatch
\* the bytes of instruction_data a handler indexes up to: the opcode byte and
\* the end of the last slice it takes
PayloadLen(op) ==
    CASE op = "add_product" -> 177
      [] op \in {"add_stock", "update_price", "sell"} -> 17
      [] op = "migrate_history" -> 59
      [] op = "close_product_account" -> 9
      [] OTHER -> 1

\* any other opcode byte
UnknownOpcode ==
    /\ Ready
    /\ Fails(Invoke("unknown"), InvalidInstructionData)

\* instruction_data[0] of an empty buffer
EmptyInstruction ==
    /\ Ready
    /\ Fails([NoCall EXCEPT !.op = "empty"], Panic)

\* ------------------------------------------------------------- host
\* The host ends the instruction: it keeps the writes of one that returned
\* Ok and discards the writes of any other.
Finish ==
    /\ pc = "returned"
    /\ pc' = "idle"
    /\ IF result = Ok
       THEN /\ saved' = Snapshot(cake_account, product_accounts,
                                 history_accounts)
            /\ sales' = IF call.op = "sell"
                        THEN [sales EXCEPT ![call.history_key] = @ + 1]
                        ELSE sales
            /\ closed' = IF call.op = "close_product_account"
                         THEN closed \cup {call.product_id}
                         ELSE closed
            /\ UNCHANGED accounts
       ELSE /\ cake_account' = saved.cake
            /\ product_accounts' = saved.products
            /\ history_accounts' = saved.history
            /\ UNCHANGED <<saved, sales, closed>>
    /\ call' = NoCall
    /\ result' = Ok
    /\ transferred' = NoTransfer
    /\ UNCHANGED <<overflow_checks, codec, first_id>>

\* The host reclaims the accounts left without lamports.
Reclaimed(account, none) ==
    IF account.alloc /\ account.lamports = 0 THEN none ELSE account

HostReclaim ==
    /\ pc = "idle"
    /\ \/ cake_account.alloc /\ cake_account.lamports = 0
       \/ \E i \in ProductIds :
            product_accounts[i].alloc /\ product_accounts[i].lamports = 0
    /\ cake_account' = Reclaimed(cake_account, NoCake)
    /\ product_accounts' =
         [i \in ProductIds |-> Reclaimed(product_accounts[i], NoProduct)]
    /\ saved' = Snapshot(cake_account', product_accounts', history_accounts)
    /\ UNCHANGED <<history_accounts, overflow_checks, pc, call, result,
                   transferred, sales, codec, first_id, closed>>

\* A client allocates the CakeState account anew: 48 zero bytes, assigned to
\* the program.
HostAllocate ==
    /\ pc = "idle"
    /\ ~cake_account.alloc
    /\ cake_account' = [ZeroCake EXCEPT !.lamports = RentLamports]
    /\ saved' = Snapshot(cake_account', product_accounts, history_accounts)
    /\ UNCHANGED <<product_accounts, history_accounts, overflow_checks, pc,
                   call, result, transferred, sales, codec, first_id, closed>>

\* ------------------------------------------------------------- codec
\* A buffer is a sequence of cells, the bytes of the program scaled to one bit
\* each: a u64 takes WordBits cells, a u8 ByteBits cells, a Pubkey KeyLen.
Cells == {0, 1}
Buffers(n) == [1 .. n -> Cells]

\* u64::from_le_bytes: the first cell is the least significant
RECURSIVE FromLeBytes(_)
FromLeBytes(b) == IF Len(b) = 0 THEN 0 ELSE Head(b) + 2 * FromLeBytes(Tail(b))

\* the most significant cell first
ToBeBytes(x, n) == [i \in 1 .. n |-> (x \div 2 ^ (n - i)) % 2]

\* u64::to_le_bytes
ToLeBytes(x, n) == [i \in 1 .. n |-> (x \div 2 ^ (i - 1)) % 2]

\* i64::from_le_bytes and i64::to_le_bytes: two's complement
I64FromLeBytes(b) ==
    LET u == FromLeBytes(b) IN
    IF u >= 2 ^ (Len(b) - 1) THEN u - 2 ^ Len(b) ELSE u
I64ToLeBytes(x, n) == ToLeBytes(x % 2 ^ n, n)

\* src[from..to]
Slice(src, from, to) == SubSeq(src, from + 1, to)

\* Pack::LEN of the three records
CakeStateLen == KeyLen + WordBits + WordBits
ProductLen == WordBits + NameLen + DescriptionLen + WordBits + WordBits
PurchaseHistoryLen == ByteBits + WordBits + WordBits + KeyLen + WordBits

Unpacked(value) == [error |-> Ok, value |-> value]
Refused(err) == [error |-> err, value |-> <<>>]

\* impl Pack for CakeState
PackCakeState(r) ==
    r.owner \o ToLeBytes(r.product_counter, WordBits)
            \o ToLeBytes(r.history_counter, WordBits)

UnpackCakeState(src) ==
    IF Len(src) # CakeStateLen THEN Refused(InvalidAccountData)
    ELSE Unpacked(
        [owner |-> Slice(src, 0, KeyLen),
         product_counter |->
            FromLeBytes(Slice(src, KeyLen, KeyLen + WordBits)),
         history_counter |->
            FromLeBytes(Slice(src, KeyLen + WordBits, CakeStateLen))])

\* impl Pack for Product
PackProduct(r) ==
    ToLeBytes(r.id, WordBits) \o r.name \o r.description
        \o ToLeBytes(r.price, WordBits) \o ToLeBytes(r.stock, WordBits)

UnpackProduct(src) ==
    IF Len(src) # ProductLen THEN Refused(InvalidAccountData)
    ELSE LET n == WordBits
             d == n + NameLen
             p == d + DescriptionLen
         IN Unpacked(
        [id |-> FromLeBytes(Slice(src, 0, n)),
         name |-> Slice(src, n, d),
         description |-> Slice(src, d, p),
         price |-> FromLeBytes(Slice(src, p, p + WordBits)),
         stock |-> FromLeBytes(Slice(src, p + WordBits, ProductLen))])

\* impl Pack for PurchaseHistory
PackPurchaseHistory(r) ==
    ToLeBytes(r.product_id, ByteBits) \o ToLeBytes(r.quantity, WordBits)
        \o ToLeBytes(r.total_price, WordBits) \o r.buyer
        \o I64ToLeBytes(r.timestamp, WordBits)

UnpackPurchaseHistory(src) ==
    IF Len(src) # PurchaseHistoryLen THEN Refused(InvalidAccountData)
    ELSE LET q == ByteBits
             t == q + WordBits
             b == t + WordBits
             c == b + KeyLen
         IN Unpacked(
        [product_id |-> FromLeBytes(Slice(src, 0, q)),
         quantity |-> FromLeBytes(Slice(src, q, t)),
         total_price |-> FromLeBytes(Slice(src, t, b)),
         buyer |-> Slice(src, b, c),
         timestamp |-> I64FromLeBytes(Slice(src, c, PurchaseHistoryLen))])

\* the records of each kind, over the scaled field widths
CakeStates ==
    [owner : Buffers(KeyLen), product_counter : 0 .. U64Max,
     history_counter : 0 .. U64Max]
Products ==
    [id : 0 .. U64Max, name : Buffers(NameLen),
     description : Buffers(DescriptionLen), price : 0 .. U64Max,
     stock : 0 .. U64Max]
PurchaseHistories ==
    [product_id : 0 .. U8Mod - 1, quantity : 0 .. U64Max,
     total_price : 0 .. U64Max, buyer : Buffers(KeyLen),
     timestamp : -(2 ^ (WordBits - 1)) .. 2 ^ (WordBits - 1) - 1]

Kinds == {"CakeState", "Product", "PurchaseHistory"}
Records(kind) ==
    CASE kind = "CakeState" -> CakeStates
      [] kind = "Product" -> Products
      [] kind = "PurchaseHistory" -> PurchaseHistories
LenOf(kind) ==
    CASE kind = "CakeState" -> CakeStateLen
      [] kind = "Product" -> ProductLen
      [] kind = "PurchaseHistory" -> PurchaseHistoryLen
\* Pack::pack_into_slice and Pack::unpack_from_slice of the kind
PackOf(kind, r) ==
    CASE kind = "CakeState" -> PackCakeState(r)
      [] kind = "Product" -> PackProduct(r)
      [] kind = "PurchaseHistory" -> PackPurchaseHistory(r)
UnpackOf(kind, src) ==
    CASE kind = "CakeState" -> UnpackCakeState(src)
      [] kind = "Product" -> UnpackProduct(src)
      [] kind = "PurchaseHistory" -> UnpackPurchaseHistory(src)

\* The codec taken alone: a record of any kind is packed and the buffer
\* unpacked again, or a buffer of the record's length, of one cell less or of
\* one cell more is unpacked and the record packed again.
CodecInit ==
    /\ first_id = 0
    /\ closed = {}
    /\ cake_account = [ZeroCake EXCEPT !.lamports = RentLamports]
    /\ product_accounts = [i \in ProductIds |-> NoProduct]
    /\ history_accounts = [k \in HistoryKeys |-> NoHistory]
    /\ saved = Snapshot(cake_account, product_accounts, history_accounts)
    /\ overflow_checks = FALSE
    /\ pc = "idle"
    /\ call = NoCall
    /\ result = Ok
    /\ transferred = NoTransfer
    /\ sales = [k \in SellHistoryKeys |-> 0]
    /\ \E kind \in Kinds :
         \/ \E r \in Records(kind) :
              codec = [NoCodec EXCEPT !.kind = kind, !.origin = "record",
                                      !.step = "start", !.record0 = r,
                                      !.record = r]
         \/ \E b \in Buffers(LenOf(kind)) :
              codec = [NoCodec EXCEPT !.kind = kind, !.origin = "buffer",
                                      !.step = "start", !.buffer0 = b,
                                      !.buffer = b]

\* the caller hands a buffer one cell short
Truncate ==
    /\ codec.origin = "buffer" /\ codec.step = "start"
    /\ Len(codec.buffer0) = LenOf(codec.kind)
    /\ LET b == Slice(codec.buffer0, 0, Len(codec.buffer0) - 1) IN
       codec' = [codec EXCEPT !.buffer0 = b, !.buffer = b]
    /\ UNCHANGED program

\* the caller hands a buffer one cell long
Extend ==
    /\ codec.origin = "buffer" /\ codec.step = "start"
    /\ Len(codec.buffer0) = LenOf(codec.kind)
    /\ \E c \in Cells :
         LET b == Append(codec.buffer0, c) IN
         codec' = [codec EXCEPT !.buffer0 = b, !.buffer = b]
    /\ UNCHANGED program

\* Pack::pack of the record in hand
Pack ==
    /\ \/ codec.origin = "record" /\ codec.step = "start"
       \/ codec.origin = "buffer" /\ codec.step = "unpacked"
            /\ codec.error = Ok
    /\ codec' = [codec EXCEPT
                    !.buffer = PackOf(codec.kind, codec.record),
                    !.step = IF codec.origin = "record" THEN "packed"
                             ELSE "done"]
    /\ UNCHANGED program

\* Pack::unpack of the buffer in hand
Unpack ==
    /\ \/ codec.origin = "buffer" /\ codec.step = "start"
       \/ codec.origin = "record" /\ codec.step = "packed"
    /\ LET u == UnpackOf(codec.kind, codec.buffer) IN
       codec' = [codec EXCEPT
                    !.record = u.value, !.error = u.error,
                    !.step = IF codec.origin = "buffer" THEN "unpacked"
                             ELSE "done"]
    /\ UNCHANGED program

CodecNext == Truncate \/ Extend \/ Pack \/ Unpack

CodecSpec == CodecInit /\ [][CodecNext]_vars

\* ------------------------------------------------------------- claims
Returned(op) == pc = "returned" /\ call.op = op

\* the handler has written no account and moved no lamports
Unwritten ==
    /\ cake_account = saved.cake
    /\ product_accounts = saved.products
    /\ history_accounts = saved.history
    /\ transferred = NoTransfer

\* the CakeState slot carried a recognized owner when the instruction began
WasInitialized == saved.cake.alloc /\ saved.cake.owner \in Keys

\* the operations the owner check guards, and those among them that mutate
\* on the owner's behalf
OwnerGated == {"add_product", "add_stock", "update_price", "sell",
               "close_account", "close_product_account"}
OwnerMutating == OwnerGated \ {"sell"}

\* the Product the instruction's payload names, as it was when it began
SavedProduct == saved.products[call.product_id]

\* C1: initialize on a slot that is already initialized fails and leaves the
\* stored CakeState (owner and both counters) as it was.
C1_InitializeTwiceRejected ==
    (Returned("initialize") /\ call.enough /\ WasInitialized)
        => (result # Ok /\ cake_account = saved.cake)

\* C2: once a CakeState has an owner, every operation other than the
\* close_account that erases it leaves the owner field as it was.
C2_OwnerNeverChanges ==
    (pc = "returned" /\ WasInitialized /\ call.op # "close_account")
        => cake_account.owner = saved.cake.owner

\* C3: on an existing CakeState no operation decreases product_counter or
\* history_counter.
C3_CountersNeverDecrease ==
    (pc = "returned" /\ WasInitialized /\ call.op # "close_account")
        => /\ cake_account.product_counter >= saved.cake.product_counter
           /\ cake_account.history_counter >= saved.cake.history_counter

\* C4: an owner-gated operation presented with an identity other than the
\* CakeState's owner returns the owner-check error (InvalidAccountData, the
\* program's value for an unauthorized caller) and has written no CakeState,
\* Product or PurchaseHistory field and moved no lamports.
C4_NonOwnerRejected ==
    (pc = "returned" /\ call.op \in OwnerGated /\ call.enough
        /\ saved.cake.alloc /\ call.owner # saved.cake.owner)
        => (result = InvalidAccountData /\ Unwritten)

\* C4 witness: update_price presented by a key other than the owner of an
\* initialized shop that holds a product, rejected with the price as it was.
C4_Witness ==
    /\ Returned("update_price")
    /\ WasInitialized
    /\ call.owner \in Keys
    /\ call.owner # saved.cake.owner
    /\ result = InvalidAccountData
    /\ saved.products[0].alloc
    /\ product_accounts[0].price = saved.products[0].price
    /\ product_accounts[0].price \in Prices

\* C5: migrate_history invoked by an identity other than the CakeState's owner
\* fails, so that the host keeps no PurchaseHistory it wrote.
C5_MigrateOnlyByOwner ==
    (Returned("migrate_history") /\ call.enough /\ WasInitialized
        /\ call.payer # saved.cake.owner)
        => result # Ok

\* C6: a mutating owner-gated operation that names the owner's key in the
\* owner position without the owner's signature is rejected and changes no
\* record.
C6_OwnerMustSign ==
    (pc = "returned" /\ call.op \in OwnerMutating /\ call.enough
        /\ WasInitialized /\ call.owner = saved.cake.owner /\ ~call.signer)
        => result # Ok

\* C7: a sell whose quantity exceeds the product's stock returns the
\* insufficient-stock error (InsufficientFunds) having written nothing and
\* paid nothing; a sell writes a stock only when quantity <= stock before, and
\* then the stock written is stock before - quantity, on the product sold only.
C7_SellNeverOversells ==
    /\ (Returned("sell") /\ call.len = 17
            /\ call.amount > SavedProduct.stock)
        => (result = InsufficientFunds /\ Unwritten)
    /\ (Returned("sell") /\ product_accounts # saved.products)
        => /\ call.len = 17
           /\ call.amount <= SavedProduct.stock
           /\ product_accounts =
                [saved.products EXCEPT ![call.product_id].stock =
                    SavedProduct.stock - call.amount]

\* C7 witness: a sell of more than the stock of an existing product, rejected.
C7_Witness ==
    /\ Returned("sell")
    /\ call.len = 17
    /\ SavedProduct.alloc
    /\ SavedProduct.lamports = RentLamports
    /\ call.amount > SavedProduct.stock
    /\ result = InsufficientFunds
    /\ product_accounts[call.product_id].stock = SavedProduct.stock

\* C8: a successful sell by buyer B begun with history_counter = h creates
\* exactly one PurchaseHistory, at the address of ("history", B, product_id,
\* h), holding the quantity, the buyer and the total paid (quantity * price
\* when that fits a u64), and leaves history_counter = h + 1 with the owner
\* and product_counter as they were.
C8_SellAppendsHistory ==
    (Returned("sell") /\ result = Ok) =>
        LET h == saved.cake.history_counter
            k == HistoryAddress(call.buyer, call.product_id, h)
        IN
        /\ ~saved.history[k].alloc
        /\ history_accounts[k].alloc
        /\ history_accounts[k].quantity = call.amount
        /\ history_accounts[k].buyer = call.buyer
        /\ history_accounts[k].total_price = transferred.lamports
        /\ transferred.from = call.buyer
        /\ transferred.to = saved.cake.owner
        /\ (~Overflows(call.amount * SavedProduct.price)
              => history_accounts[k].total_price
                    = call.amount * SavedProduct.price)
        /\ \A j \in HistoryKeys \ {k} : history_accounts[j] = saved.history[j]
        /\ [cake_account EXCEPT !.lamports = saved.cake.lamports]
              = [saved.cake EXCEPT !.history_counter = h + 1]

\* C8 witness: initialize, add_product(price 1, stock 2), sell(0, 1) by B:
\* product_counter = 1, stock = 1, history_counter = 1 and the entry of
\* ("history", B, 0, 0) holds quantity 1 and total_price 1.
C8_Witness ==
    /\ Returned("sell")
    /\ result = Ok
    /\ call.buyer = "B"
    /\ call.product_id = 0
    /\ call.amount = 1
    /\ saved.cake.history_counter = 0
    /\ SavedProduct.price = 1
    /\ SavedProduct.stock = 2
    /\ cake_account.product_counter = 1
    /\ cake_account.history_counter = 1
    /\ product_accounts[0].stock = 1
    /\ history_accounts[HistoryAddress("B", 0, 0)].quantity = 1
    /\ history_accounts[HistoryAddress("B", 0, 0)].total_price = 1

\* C9: a sell whose quantity * price exceeds the u64 range fails, so that no
\* total reduced mod 2^64 is transferred or recorded and no state changes.
C9_SellTotalChecked ==
    (Returned("sell") /\ call.len = 17 /\ WasInitialized
        /\ call.amount <= SavedProduct.stock
        /\ Overflows(call.amount * SavedProduct.price))
        => result # Ok

\* C10: the sell invokes the transfer before it writes any record: a sell
\* whose transfer fails returns with the stock, the history_counter and the
\* PurchaseHistory accounts as they were, and a sell returns with any account
\* written only after its transfer went through.
C10_SellPaysFirst ==
    /\ (Returned("sell") /\ result = TransferError) => Unwritten
    /\ (Returned("sell") /\ accounts # <<saved.cake, saved.products,
                                         saved.history>>)
        => /\ transferred # NoTransfer
           /\ transferred.from = call.buyer

\* C10 witness: a sell within stock whose transfer the system program refuses.
C10_Witness ==
    /\ Returned("sell")
    /\ result = TransferError
    /\ call.buyer \in Buyers
    /\ SavedProduct.alloc
    /\ call.amount <= SavedProduct.stock
    /\ product_accounts[call.product_id].stock = SavedProduct.stock
    /\ cake_account.history_counter = saved.cake.history_counter

\* C11: the PurchaseHistory a sell creates holds total_price = quantity *
\* the price the Product carried when the sell began, as integers, and no
\* later update_price, add_stock or sell rewrites an entry a sell created.
C11_HistoryTotalIsProduct ==
    /\ (Returned("sell") /\ result = Ok /\ WasInitialized)
        => history_accounts[HistoryAddress(call.buyer, call.product_id,
                                           saved.cake.history_counter)]
             .total_price = call.amount * SavedProduct.price
    /\ (pc = "returned" /\ call.op \in {"update_price", "add_stock", "sell"})
        => \A k \in SellHistoryKeys :
             saved.history[k].alloc => history_accounts[k] = saved.history[k]

\* C12: a successful add_product begun with product_counter = n creates the
\* Product at the address of ("product", n), which held no account before,
\* with id = n and the name, description, price and stock of the payload,
\* leaves every other Product and every PurchaseHistory as it was, and leaves
\* product_counter = n + 1 with history_counter and owner unchanged.
C12_AddProductCreates ==
    (Returned("add_product") /\ result = Ok) =>
        LET n == saved.cake.product_counter IN
        /\ call.product_key = ProductAddress(n)
        /\ ~saved.products[n].alloc
        /\ product_accounts[n].alloc
        /\ product_accounts[n].id = n
        /\ product_accounts[n].name = call.name
        /\ product_accounts[n].description = call.description
        /\ product_accounts[n].price = call.price
        /\ product_accounts[n].stock = call.amount
        /\ \A i \in ProductIds \ {n} : product_accounts[i] = saved.products[i]
        /\ history_accounts = saved.history
        /\ cake_account = [saved.cake EXCEPT !.product_counter = n + 1]

\* C12 witness: add_product by the owner of an initialized shop with the
\* largest price and a stock of 2, created as product 0.
C12_Witness ==
    /\ Returned("add_product")
    /\ result = Ok
    /\ WasInitialized
    /\ call.owner = saved.cake.owner
    /\ call.name \in Names
    /\ call.description \in Descriptions
    /\ call.price = U64Max
    /\ call.amount = 2
    /\ product_accounts[0].id = 0
    /\ product_accounts[0].price = U64Max
    /\ product_accounts[0].stock = 2
    /\ cake_account.product_counter = 1

\* C13: an add_product, sell or migrate_history handed a target account whose
\* address differs from the address derived from the operation's key fields
\* fails having written no record and moved no lamports.
C13_AddressCheckedFirst ==
    /\ (Returned("add_product") /\ call.product_key # <<>>
            /\ call.product_key # ProductAddress(saved.cake.product_counter))
        => (result # Ok /\ Unwritten)
    /\ (Returned("sell") /\ WasInitialized /\ call.history_key # <<>>
            /\ call.history_key #
                  HistoryAddress(call.buyer, call.product_id,
                                 saved.cake.history_counter))
        => (result # Ok /\ Unwritten)
    /\ (Returned("migrate_history") /\ call.history_key # <<>>
            /\ call.history_key # MigrateAddress(call.buyer, call.index))
        => (result # Ok /\ Unwritten)

\* C14: over every sequence of operations no history address ("history",
\* buyer, product_id, history_index) is used by two successful sells: a sell
\* succeeds only on an address that held no PurchaseHistory, and it leaves
\* every PurchaseHistory that existed as it was.
C14_SellKeysNeverReused ==
    /\ \A k \in SellHistoryKeys : sales[k] <= 1
    /\ (Returned("sell") /\ result = Ok)
        => /\ ~saved.history[call.history_key].alloc
           /\ \A k \in HistoryKeys :
                saved.history[k].alloc
                    => history_accounts[k] = saved.history[k]

\* C14 witness: the second successful sell of product 0 to buyer B, at the
\* address of index 1 with the entry of index 0 still in place.
C14_Witness ==
    /\ Returned("sell")
    /\ result = Ok
    /\ call.buyer = "B"
    /\ call.product_id = 0
    /\ sales[HistoryAddress("B", 0, 0)] = 1
    /\ saved.history[HistoryAddress("B", 0, 0)].alloc
    /\ call.history_key = HistoryAddress("B", 0, 1)
    /\ history_accounts[HistoryAddress("B", 0, 1)].alloc
    /\ history_accounts[HistoryAddress("B", 0, 0)]
          = saved.history[HistoryAddress("B", 0, 0)]

\* C15: an instruction whose buffer is shorter than the layout its opcode
\* reads, the empty buffer included, fails with an error value: the program
\* never aborts by panic on it.
C15_ShortPayloadRejected ==
    (pc = "returned" /\ call.len < PayloadLen(call.op))
        => (result # Ok /\ result # Panic)

\* C16: the error value tells the cause.  The owner check answers a caller
\* other than the owner with InvalidAccountData (C4) and the stock check
\* answers with InsufficientFunds (C7); an instruction of the owner that names
\* a product account other than the derived one returns neither of these nor
\* the value of a malformed instruction.
C16_ErrorsTellCauses ==
    (pc = "returned"
        /\ call.op \in {"add_stock", "update_price", "sell",
                        "close_product_account"}
        /\ WasInitialized /\ call.owner = saved.cake.owner
        /\ call.product_key # <<>>
        /\ call.product_key # ProductAddress(call.product_id))
        => result \notin {InvalidAccountData, InsufficientFunds,
                          InvalidInstructionData, Panic}

\* C17: a successful close_account leaves the CakeState account with every
\* data byte zero and a balance of 0, its former balance moved to the owner
\* account; a successful close_product_account does the same to the Product
\* account it names and leaves the CakeState and every other Product as they
\* were.
C17_CloseRefunds ==
    /\ (Returned("close_account") /\ result = Ok)
        => /\ cake_account = ZeroCake
           /\ transferred = [from |-> CakeKey, to |-> call.owner,
                             lamports |-> saved.cake.lamports]
           /\ product_accounts = saved.products
           /\ history_accounts = saved.history
    /\ (Returned("close_product_account") /\ result = Ok)
        => /\ product_accounts =
                [saved.products EXCEPT ![call.product_id] = ZeroProduct]
           /\ transferred = [from |-> call.product_key, to |-> call.owner,
                             lamports |-> SavedProduct.lamports]
           /\ cake_account = saved.cake
           /\ history_accounts = saved.history

\* C18: for each record kind, unpacking the packed record gives the record
\* back and packing the unpacked buffer gives the buffer back, cell for cell;
\* a packed record has the kind's length with each integer's least
\* significant cell at the field's fixed offset; and unpacking a buffer of any
\* other length fails with the size-mismatch error (InvalidAccountData).
C18_CodecRoundTrip ==
    /\ (codec.origin = "record" /\ codec.step = "packed")
        => /\ Len(codec.buffer) = LenOf(codec.kind)
           /\ codec.kind = "CakeState"
                => codec.buffer[KeyLen + 1] = codec.record0.product_counter % 2
           /\ codec.kind = "Product"
                => codec.buffer[ProductLen - WordBits + 1]
                      = codec.record0.stock % 2
           /\ codec.kind = "PurchaseHistory"
                => codec.buffer[ByteBits + 1] = codec.record0.quantity % 2
    /\ (codec.origin = "record" /\ codec.step = "done")
        => (codec.error = Ok /\ codec.record = codec.record0)
    /\ (codec.origin = "buffer" /\ codec.step = "unpacked")
        => IF Len(codec.buffer0) = LenOf(codec.kind)
           THEN codec.error = Ok /\ codec.record \in Records(codec.kind)
           ELSE codec.error = InvalidAccountData
    /\ (codec.origin = "buffer" /\ codec.step = "done")
        => codec.buffer = codec.buffer0

\* C18 witness: a PurchaseHistory buffer that unpacks to quantity 1 (its
\* least significant cell set, the others clear) and a negative timestamp,
\* packed back into the same cells.
C18_Witness ==
    /\ codec.kind = "PurchaseHistory"
    /\ codec.origin = "buffer"
    /\ codec.step = "done"
    /\ codec.record.quantity = 1
    /\ codec.buffer0[ByteBits + 1] = 1
    /\ codec.record.timestamp < 0
    /\ codec.buffer = codec.buffer0

\* C19: a successful add_stock changes the stock field of the Product its
\* payload names and nothing else, and a successful update_price changes that
\* Product's price field, to the new price, and nothing else: the id, name,
\* description and the other of price and stock, every other Product, every
\* PurchaseHistory and the CakeState are as they were, and no lamports move.
C19_StockAndPriceFrame ==
    /\ (Returned("add_stock") /\ result = Ok)
        => /\ \E stock \in 0 .. U64Max :
                product_accounts =
                    [saved.products EXCEPT ![call.product_id].stock = stock]
           /\ cake_account = saved.cake
           /\ history_accounts = saved.history
           /\ transferred = NoTransfer
    /\ (Returned("update_price") /\ result = Ok)
        => /\ product_accounts =
                [saved.products EXCEPT ![call.product_id].price = call.price]
           /\ cake_account = saved.cake
           /\ history_accounts = saved.history
           /\ transferred = NoTransfer

\* C19 witness: update_price by the owner from price 1 to the largest price
\* on a product holding a stock of 2, which it keeps.
C19_Witness ==
    /\ Returned("update_price")
    /\ result = Ok
    /\ WasInitialized
    /\ SavedProduct.lamports = RentLamports
    /\ SavedProduct.price = 1
    /\ SavedProduct.stock = 2
    /\ call.price = U64Max
    /\ product_accounts[call.product_id].price = U64Max
    /\ product_accounts[call.product_id].stock = 2
    /\ product_accounts[call.product_id].name = SavedProduct.name

\* C20: after a successful add_stock the stock is the stock before plus the
\* amount, as integers: an addition that exceeds the u64 range does not
\* succeed with the sum reduced mod 2^64.
C20_AddStockExact ==
    (Returned("add_stock") /\ result = Ok /\ WasInitialized)
        => product_accounts[call.product_id].stock
              = SavedProduct.stock + call.amount

\* C21: the history entry a successful sell creates carries the full id of
\* the product that was sold, whatever the id, ids beyond a u8 included.
C21_HistoryKeepsProductId ==
    (Returned("sell") /\ result = Ok) =>
        LET k == HistoryAddress(call.buyer, call.product_id,
                                saved.cake.history_counter)
        IN  /\ product_accounts[call.product_id].stock
                  = SavedProduct.stock - call.amount
            /\ history_accounts[k].product_id = call.product_id

\* C22: erasure by close_product_account is permanent: once it has succeeded
\* for an id, every later add_stock, update_price or sell naming that id
\* fails and leaves the accounts as they were, and no Product exists at that
\* id again, whatever instructions follow.
C22_ClosedIdsNeverReused ==
    /\ pc = "idle" =>
          \A id \in closed \cap ProductIds :
              product_accounts[id] \in {NoProduct, ZeroProduct}
    /\ (/\ pc = "returned"
        /\ call.op \in {"add_stock", "update_price", "sell"}
        /\ call.len >= 9
        /\ call.product_id \in closed)
          => (result # Ok /\ Unwritten)

\* C23: stock is conserved.  Every successful instruction keeps the balance
\* stock = initial stock + amounts added - quantities sold of every Product:
\* add_product stores the initial stock it was given, add_stock raises the
\* stock by exactly its amount, sell lowers it by exactly its amount and
\* records that amount as the quantity of the one history entry it creates,
\* and nothing else changes the stock of a Product that exists.
C23_StockConserved ==
    (pc = "returned" /\ result = Ok /\ WasInitialized) =>
        \A id \in ProductIds :
            LET before == saved.products[id]
                after == product_accounts[id]
                named == call.len >= 9 /\ call.product_id = id
            IN
            IF call.op = "add_product" /\ id = saved.cake.product_counter
            THEN after.alloc /\ after.stock = call.amount
            ELSE IF call.op = "add_stock" /\ named
            THEN after.stock = before.stock + call.amount
            ELSE IF call.op = "sell" /\ named
            THEN LET k == HistoryAddress(call.buyer, id,
                                         saved.cake.history_counter)
                 IN  /\ after.stock = before.stock - call.amount
                     /\ ~saved.history[k].alloc
                     /\ history_accounts[k].alloc
                     /\ history_accounts[k].quantity
                           = before.stock - after.stock
            ELSE IF call.op = "close_product_account" /\ named
            THEN after = ZeroProduct
            ELSE after.alloc => (before.alloc /\ after.stock = before.stock)

Next ==
    \/ Initialize
    \/ AddProduct
    \/ AddStock
    \/ UpdatePrice
    \/ Sell
    \/ MigrateHistory
    \/ CloseAccount
    \/ CloseProductAccount
    \/ UnknownOpcode
    \/ EmptyInstruction
    \/ Finish
    \/ HostReclaim
    \/ HostAllocate

Spec == Init /\ [][Next]_vars

\* The shop once its product ids have outgrown a u8: U8Mod products were
\* added, each was closed by close_product_account and reclaimed, so that
\* product_counter = U8Mod and the next product takes the first id that
\* `as u8` does not keep.
LateInit ==
    /\ first_id = U8Mod
    /\ closed = 0 .. U8Mod - 1
    /\ cake_account = [ZeroCake EXCEPT !.lamports = RentLamports,
                                       !.owner = "A",
                                       !.product_counter = U8Mod]
    /\ product_accounts = [i \in ProductIds |-> NoProduct]
    /\ history_accounts = [k \in HistoryKeys |-> NoHistory]
    /\ saved = Snapshot(cake_account, product_accounts, history_accounts)
    /\ overflow_checks \in BOOLEAN
    /\ codec = NoCodec
    /\ pc = "idle"
    /\ call = NoCall
    /\ result = Ok
    /\ transferred = NoTransfer
    /\ sales = [k \in SellHistoryKeys |-> 0]

LateSpec == LateInit /\ [][Next]_vars
====
